---------------------------- MODULE Spec2Model ----------------------------
(***************************************************************************)
(* A model of the n-body simulation of src/main.cpp: the initialisation    *)
(* of the bodies, the update loop (scheduler, render, position advance,    *)
(* pairwise force accumulation, recentre) and the renderer                 *)
(* create_map_of_bodies.                                                    *)
(*                                                                         *)
(* Numbers.  A C++ double is modelled as a record [k, n, d]:               *)
(*   k = "fin"  the rational n/d (d > 0, lowest terms), computed exactly;  *)
(*   k = "nan"  a NaN;                                                     *)
(*   k = "inf"  an infinity of sign n;                                     *)
(*   k = "max"  n * DBL_MAX, the largest finite double;                    *)
(*   k = "min"  a value of sign n whose magnitude is far below that of     *)
(*              every non-zero rational of the model (DBL_MIN, and what a  *)
(*              rational divided by DBL_MAX gives).                        *)
(* Arithmetic on rationals is exact (no rounding); the special kinds       *)
(* follow IEEE-754: overflow gives an infinity, 0/0 and inf/inf a NaN, and *)
(* a rational absorbs a "min" and is absorbed by a "max".                  *)
(***************************************************************************)
EXTENDS Integers, Sequences, FiniteSets, TLC

\* ------------------------------------------------------------- bounds

\* The largest collection the update loop is explored with.
MaxBodies == 3
\* The update loop is explored up to this many completed ticks.
MaxTicks == 2
\* The clock readings the scheduler can see are 0..MaxClock (in clock units).
MaxClock == 4
\* Clock units in one second.
ClockHz == 20
\* The terminal's width and height are explored in 0..MaxDim.
MaxDim == 2
\* The largest collection create_map_of_bodies is explored with on its own.
MaxRenderBodies == 3
\* rand() returns 0..RAND_MAX.
RAND_MAX == 1
\* The largest collection the initialisation is explored with.
MaxInitBodies == 2

\* ---------------------------------------------------- program constants

gravitational_constant == 1
updates_per_second == 10

\* ------------------------------------------------------------ doubles

Abs(i) == IF i < 0 THEN -i ELSE i
Sgn(i) == IF i < 0 THEN -1 ELSE IF i > 0 THEN 1 ELSE 0

RECURSIVE Gcd(_, _)
Gcd(a, b) == IF b = 0 THEN a ELSE Gcd(b, a % b)

\* The integers the model computes with: those of magnitude up to IntLimit.
IntRoot == 2 * 23170
IntLimit == IntRoot * IntRoot
FitsProduct(p, q) == p = 0 \/ q = 0 \/ Abs(p) <= IntLimit \div Abs(q)
FitsSum(p, q) == Abs(p) <= IntLimit - Abs(q)

NaN == [k |-> "nan", n |-> 0, d |-> 0]
Inf(s) == [k |-> "inf", n |-> s, d |-> 0]
DblMax(s) == [k |-> "max", n |-> s, d |-> 0]
Tiny(s) == [k |-> "min", n |-> s, d |-> 0]
\* A number the model cannot hold: a rational whose numerator or denominator
\* is beyond IntLimit, or an irrational square root.
Out == [k |-> "out", n |-> 0, d |-> 0]
\* std::numeric_limits<double>::max() and ::min(): the largest finite double
\* and the smallest POSITIVE normal double (2^-1022).
DBL_MAX == DblMax(1)
DBL_MIN == Tiny(1)

\* The rational n/d (d # 0) in lowest terms with a positive denominator.
Fin(n, d) ==
  LET g == Gcd(Abs(n), Abs(d))
      s == IF d < 0 THEN -1 ELSE 1
  IN  [k |-> "fin", n |-> s * (n \div g), d |-> s * (d \div g)]

I(n) == Fin(n, 1)
Zero == I(0)

IsNaN(a) == a.k = "nan"
IsOut(a) == a.k = "out"
IsFin(a) == a.k = "fin"
IsZero(a) == a.k = "fin" /\ a.n = 0
\* finite in the sense of std::isfinite
IsFinite(a) == a.k \in {"fin", "max", "min"}
SignOf(a) == Sgn(a.n)

\* The magnitude class of a value that is a number: 0 zero, 1 min,
\* 2 rational, 3 max, 4 inf.
Rank(a) ==
  CASE a.k = "fin" -> IF a.n = 0 THEN 0 ELSE 2
    [] a.k = "min" -> 1
    [] a.k = "max" -> 3
    [] a.k = "inf" -> 4

Neg(a) == IF a.k \in {"nan", "out"} THEN a ELSE [a EXCEPT !.n = -a.n]

\* an/ad < bn/bd for ad, bd > 0, by the integer parts and then the
\* reciprocals of the fractional parts (no product is formed).
RECURSIVE LtRational(_, _, _, _)
LtRational(an, ad, bn, bd) ==
  LET qa == an \div ad
      qb == bn \div bd
      ra == an % ad
      rb == bn % bd
  IN  IF qa # qb THEN qa < qb
      ELSE IF rb = 0 THEN FALSE
      ELSE IF ra = 0 THEN TRUE
      ELSE LtRational(bd, rb, ad, ra)

\* a < b; false when either is a NaN.
Lt(a, b) ==
  /\ ~IsNaN(a) /\ ~IsOut(a)
  /\ ~IsNaN(b) /\ ~IsOut(b)
  /\ IF IsFin(a) /\ IsFin(b)
       THEN LtRational(a.n, a.d, b.n, b.d)
       ELSE LET ka == SignOf(a) * Rank(a)
                kb == SignOf(b) * Rank(b)
            IN  ka < kb
Gt(a, b) == Lt(b, a)

\* The sum of two rationals.
AddFin(a, b) ==
  LET g == Gcd(a.d, b.d)
      da == a.d \div g
      db == b.d \div g
  IN  IF FitsProduct(a.n, db) /\ FitsProduct(b.n, da) /\ FitsProduct(a.d, db)
         /\ FitsSum(a.n * db, b.n * da)
        THEN Fin(a.n * db + b.n * da, a.d * db)
        ELSE Out

\* The product of two rationals.
MulFin(a, b) ==
  LET g1 == Gcd(Abs(a.n), b.d)
      g2 == Gcd(Abs(b.n), a.d)
      n1 == a.n \div g1
      n2 == b.n \div g2
      d1 == a.d \div g2
      d2 == b.d \div g1
  IN  IF FitsProduct(n1, n2) /\ FitsProduct(d1, d2)
        THEN Fin(n1 * n2, d1 * d2)
        ELSE Out

\* a + b.  Two "min" values of the same sign stay in the "min" class.
Add(a, b) ==
  CASE IsOut(a) \/ IsOut(b) -> Out
    [] IsNaN(a) \/ IsNaN(b) -> NaN
    [] IsFin(a) /\ IsFin(b) -> AddFin(a, b)
    [] OTHER ->
         LET ra == Rank(a)
             rb == Rank(b)
             hi == IF ra >= rb THEN a ELSE b
         IN  IF ra # rb THEN hi
             ELSE IF SignOf(a) # SignOf(b)
                    THEN (IF ra = 4 THEN NaN ELSE Zero)
                    ELSE (IF ra = 3 THEN Inf(SignOf(a)) ELSE a)

Sub(a, b) == Add(a, Neg(b))

\* a * b, for the operand classes the program multiplies: rationals,
\* infinities, NaNs, and a "min" scaled by a rational.
Mul(a, b) ==
  CASE IsOut(a) \/ IsOut(b) -> Out
    [] IsNaN(a) \/ IsNaN(b) -> NaN
    [] IsFin(a) /\ IsFin(b) -> MulFin(a, b)
    [] (IsZero(a) /\ b.k = "inf") \/ (IsZero(b) /\ a.k = "inf") -> NaN
    [] IsZero(a) \/ IsZero(b) -> Zero
    [] a.k = "inf" \/ b.k = "inf" -> Inf(SignOf(a) * SignOf(b))
    [] (a.k = "min" /\ b.k = "fin") \/ (a.k = "fin" /\ b.k = "min") ->
         Tiny(SignOf(a) * SignOf(b))

\* a / b, for the operand classes the program divides.
Div(a, b) ==
  CASE IsOut(a) \/ IsOut(b) -> Out
    [] IsNaN(a) \/ IsNaN(b) -> NaN
    [] IsZero(b) -> IF IsZero(a) THEN NaN ELSE Inf(SignOf(a))
    [] IsFin(a) /\ IsFin(b) -> MulFin(a, Fin(b.d, b.n))
    [] a.k = "inf" /\ b.k = "inf" -> NaN
    [] a.k = "inf" -> Inf(SignOf(a) * SignOf(b))
    [] b.k = "inf" -> Zero
    [] IsZero(a) -> Zero
    [] a.k = "max" /\ b.k = "max" -> I(SignOf(a) * SignOf(b))
    [] a.k = "fin" /\ b.k = "max" -> Tiny(SignOf(a) * SignOf(b))
    [] a.k = "min" /\ b.k = "max" -> Zero
    [] a.k = "min" /\ b.k = "min" -> I(SignOf(a) * SignOf(b))

\* The integer square root of a perfect square q >= 0, and -1 otherwise.
RECURSIVE SqrtSearch(_, _, _)
SqrtSearch(q, lo, hi) ==
  IF lo > hi THEN -1
  ELSE LET mid == (lo + hi) \div 2
       IN  IF mid * mid = q THEN mid
           ELSE IF mid * mid < q THEN SqrtSearch(q, mid + 1, hi)
           ELSE SqrtSearch(q, lo, mid - 1)
ISqrt(q) == SqrtSearch(q, 0, IF q < IntRoot THEN q ELSE IntRoot)

\* sqrt(a), exact on the squares of rationals.
Sqrt(a) ==
  CASE IsOut(a) -> Out
    [] IsNaN(a) -> NaN
    [] a.k = "inf" -> IF a.n > 0 THEN a ELSE NaN
    [] IsFin(a) ->
         IF a.n < 0 THEN NaN
         ELSE IF ISqrt(a.n) >= 0 /\ ISqrt(a.d) >= 0
                THEN Fin(ISqrt(a.n), ISqrt(a.d))
                ELSE Out

\* round(a) for a >= 0: the nearest integer, halves away from zero; -1 when
\* round(a) is a NaN.
Round(a) ==
  CASE IsFin(a) ->
         (a.n \div a.d) + (IF (a.n % a.d) >= a.d - (a.n % a.d) THEN 1 ELSE 0)
    [] a.k = "min" -> 0
    [] OTHER -> -1

\* --------------------------------------------------------- the bodies

\* struct Body
Body(x, y, z, vx, vy, vz, mass) ==
  [x |-> x, y |-> y, z |-> z, vx |-> vx, vy |-> vy, vz |-> vz, mass |-> mass]

\* newton_law_of_universal_gravitation with the inverse square of the distance
InverseSquareLaw(G, mass1, mass2, dist) ==
  Mul(G, Div(Mul(mass1, mass2), Mul(dist, dist)))

\* gravitational_constant * ((mass1 * mass2) / distance): the distance is
\* not squared.
newton_law_of_universal_gravitation(G, mass1, mass2, dist) ==
  Mul(G, Div(Mul(mass1, mass2), dist))

magnitude(x, y, z) == Sqrt(Add(Add(Mul(x, x), Mul(y, y)), Mul(z, z)))

distance(x1, y1, z1, x2, y2, z2) ==
  magnitude(Sub(x1, x2), Sub(y1, y2), Sub(z1, z2))

\* x2_force = -x1_force: the force on the second body of a pair
SameForce(f) == f
SecondForce(f) == Neg(f)

\* body.x += body.vx; ... for one body
AdvanceBody(b) ==
  [b EXCEPT !.x = Add(b.x, b.vx), !.y = Add(b.y, b.vy), !.z = Add(b.z, b.vz)]

\* The position advance over the whole collection.
AdvanceAll(bs) == [i \in 1..Len(bs) |-> AdvanceBody(bs[i])]

\* One iteration of the inner pair loop: the bodies at (0-based) indices a < b
\* of the live collection bs, with the snapshot old.
PairUpdate(bs, old, a, b) ==
  LET o1 == old[a + 1]
      o2 == old[b + 1]
      distance_between_the_two_mass_centers ==
        distance(o1.x, o1.y, o1.z, o2.x, o2.y, o2.z)
      force == newton_law_of_universal_gravitation(
                 I(gravitational_constant), o1.mass, o2.mass,
                 distance_between_the_two_mass_centers)
      x1 == Sub(o2.x, o1.x)
      y1 == Sub(o2.y, o1.y)
      z1 == Sub(o2.z, o1.z)
      magnitude1 == magnitude(x1, y1, z1)
      x1_force == Mul(Div(x1, magnitude1), force)
      y1_force == Mul(Div(y1, magnitude1), force)
      z1_force == Mul(Div(z1, magnitude1), force)
      x2_force == SecondForce(x1_force)
      y2_force == SecondForce(y1_force)
      z2_force == SecondForce(z1_force)
      m1 == bs[a + 1].mass
      m2 == bs[b + 1].mass
  IN  [bs EXCEPT
         ![a + 1].vx = Add(@, Div(x1_force, m1)),
         ![a + 1].vy = Add(@, Div(y1_force, m1)),
         ![a + 1].vz = Add(@, Div(z1_force, m1)),
         ![b + 1].vx = Add(@, Div(x2_force, m2)),
         ![b + 1].vy = Add(@, Div(y2_force, m2)),
         ![b + 1].vz = Add(@, Div(z2_force, m2))]

\* The sum of f[1], ..., f[k].
RECURSIVE SumTo(_, _)
SumTo(f, k) == IF k = 0 THEN Zero ELSE Add(SumTo(f, k - 1), f[k])

\* cx = xsum / number_of_bodies
CentreOffByOne(sum, count) == Div(sum, I(count + 1))
Centre(sum, count) == Div(sum, I(count))

\* The recentre step: subtract the mean position from every body.
Recentre(bs) ==
  LET count == Len(bs)
      xsum == SumTo([i \in 1..count |-> bs[i].x], count)
      ysum == SumTo([i \in 1..count |-> bs[i].y], count)
      zsum == SumTo([i \in 1..count |-> bs[i].z], count)
      cx == Centre(xsum, count)
      cy == Centre(ysum, count)
      cz == Centre(zsum, count)
  IN  [i \in 1..count |->
         [bs[i] EXCEPT !.x = Sub(@, cx), !.y = Sub(@, cy), !.z = Sub(@, cz)]]

\* The pairs (i1, i2) in the order of the nested loops, from the pair (a, b) on:
\* for (i1 = 0; i1 < n - 1; i1++) for (i2 = i1 + 1; i2 < n; i2++)
RECURSIVE PairsFrom(_, _, _)
PairsFrom(a, b, count) ==
  IF ~(a < count - 1) THEN << >>
  ELSE IF ~(b < count) THEN PairsFrom(a + 1, a + 2, count)
  ELSE << << a, b >> >> \o PairsFrom(a, b + 1, count)

\* The live collection after the first k pairs of a pass over the snapshot old.
RECURSIVE PassTo(_, _, _)
PassTo(old, pairs, k) ==
  IF k = 0 THEN old
  ELSE PairUpdate(PassTo(old, pairs, k - 1), old, pairs[k][1], pairs[k][2])

\* A whole force pass: the copy, then every pair.
ForcePass(bs) ==
  LET pairs == PairsFrom(0, 1, Len(bs)) IN PassTo(bs, pairs, Len(pairs))

\* Every number of the collection is one the model holds.
Held(bs) ==
  \A i \in 1..Len(bs) :
    /\ ~IsOut(bs[i].x) /\ ~IsOut(bs[i].y) /\ ~IsOut(bs[i].z)
    /\ ~IsOut(bs[i].vx) /\ ~IsOut(bs[i].vy) /\ ~IsOut(bs[i].vz)

\* -------------------------------------------------------- the renderer

\* z_characters, the depth palette
z_characters ==
  << ".", "'", ":", "-", "_", "^", "+", "=", "~", "*", "o", "O", "#", "%", "&", "@" >>
z_size == Len(z_characters)

\* An index beyond every row, column and palette entry of the model.  It stands
\* for the indices the model cannot hold as integers: a fraction scaled by
\* (uint)(0 - 1) = UINT_MAX, and UINT_MAX itself.
OutOfGrid == MaxDim + z_size + 1

\* highest_* = numeric_limits<double>::min(), lowest_* = numeric_limits<double>::max()
InitialBounds ==
  [highest_x |-> DBL_MIN, highest_y |-> DBL_MIN, highest_z |-> DBL_MIN,
   lowest_x |-> DBL_MAX, lowest_y |-> DBL_MAX, lowest_z |-> DBL_MAX]

\* One iteration of the bounds loop.
BoundsStep(bd, body) ==
  [highest_x |-> IF Gt(body.x, bd.highest_x) THEN body.x ELSE bd.highest_x,
   highest_y |-> IF Gt(body.y, bd.highest_y) THEN body.y ELSE bd.highest_y,
   highest_z |-> IF Gt(body.z, bd.highest_z) THEN body.z ELSE bd.highest_z,
   lowest_x |-> IF Lt(body.x, bd.lowest_x) THEN body.x ELSE bd.lowest_x,
   lowest_y |-> IF Lt(body.y, bd.lowest_y) THEN body.y ELSE bd.lowest_y,
   lowest_z |-> IF Lt(body.z, bd.lowest_z) THEN body.z ELSE bd.lowest_z]

\* The bounds after the first k bodies of bs.
RECURSIVE BoundsTo(_, _)
BoundsTo(bs, k) ==
  IF k = 0 THEN InitialBounds ELSE BoundsStep(BoundsTo(bs, k - 1), bs[k])

ComputedBounds(bs) == BoundsTo(bs, Len(bs))

\* (v - lowest) / (highest - lowest): the inverse lerp.
InverseLerp(v, lowest, highest) == Div(Sub(v, lowest), Sub(highest, lowest))

\* const uint i = round(fraction * (size - 1)), size an unsigned int:
\* -1 when the rounded value is a NaN, whose conversion to uint is undefined.
\* For size = 0 the factor is UINT_MAX.
MapIndex(fraction, size) ==
  IF IsNaN(fraction) THEN -1
  ELSE IF size = 0
         THEN (IF IsZero(fraction) \/ fraction.k = "min" THEN 0 ELSE OutOfGrid)
         ELSE Round(Mul(fraction, I(size - 1)))

\* The (column, row, depth) indices computed for one body; -1 marks an
\* undefined conversion.
BodyIndices(h, w, bd, body) ==
  [x |-> MapIndex(InverseLerp(body.x, bd.lowest_x, bd.highest_x), w),
   y |-> MapIndex(InverseLerp(body.y, bd.lowest_y, bd.highest_y), h),
   z |-> MapIndex(InverseLerp(body.z, bd.lowest_z, bd.highest_z), z_size)]

\* What an undefined conversion of a NaN to uint gives in a build: 0
\* (cvttsd2si or fcvtzu, truncated) or a value beyond the grid (a conversion
\* that saturates).
UBChoice == {0, OutOfGrid}

\* The indices of every body, an undefined conversion giving ub.  The bounds
\* are computed once, before the loop that uses them.
Placement(h, w, bs, ub) ==
  CHOOSE at \in
    { [i \in 1..Len(bs) |->
         LET ix == BodyIndices(h, w, bd, bs[i])
         IN  [x |-> IF ix.x = -1 THEN ub ELSE ix.x,
              y |-> IF ix.y = -1 THEN ub ELSE ix.y,
              z |-> IF ix.z = -1 THEN ub ELSE ix.z]] :
      bd \in {ComputedBounds(bs)} } : TRUE

\* lines[y][x] = z_characters[z] is within the grid and the palette.
InGrid(h, w, ix) == ix.y < h /\ ix.x < w /\ ix.z < z_size

\* lines after the writes of the first k bodies, an earlier write kept.
RECURSIVE FirstWriteLinesTo(_, _, _, _)
FirstWriteLinesTo(h, w, at, k) ==
  IF k = 0 THEN [r \in 1..h |-> [c \in 1..w |-> " "]]
  ELSE LET before == FirstWriteLinesTo(h, w, at, k - 1)
       IN  IF before[at[k].y + 1][at[k].x + 1] # " " THEN before
           ELSE [before EXCEPT
                   ![at[k].y + 1][at[k].x + 1] = z_characters[at[k].z + 1]]

\* lines after the writes of the first k bodies (each one in the grid).
RECURSIVE LinesTo(_, _, _, _)
LinesTo(h, w, at, k) ==
  IF k = 0 THEN [r \in 1..h |-> [c \in 1..w |-> " "]]
  ELSE [LinesTo(h, w, at, k - 1) EXCEPT
          ![at[k].y + 1][at[k].x + 1] = z_characters[at[k].z + 1]]

\* output += line + '\n' for the first k lines.
RECURSIVE OutputTo(_, _)
OutputTo(lines, k) ==
  IF k = 0 THEN << >> ELSE OutputTo(lines, k - 1) \o lines[k] \o << "\n" >>

\* create_map_of_bodies(height, width, bodies): the text returned, the cell
\* computed for each body, and whether an index left the grid or the palette
\* (an out-of-range access, after which the text is whatever memory holds:
\* the model keeps none of it).
create_map_of_bodies(h, w, bs, ub) ==
  CHOOSE map \in
    { IF \E i \in 1..Len(bs) : ~InGrid(h, w, at[i])
        THEN [text |-> << >>, at |-> at, fault |-> TRUE]
        ELSE CHOOSE ok \in
               { [text |-> OutputTo(lines, h), at |-> at, fault |-> FALSE] :
                 lines \in {LinesTo(h, w, at, Len(bs))} } : TRUE :
      at \in {Placement(h, w, bs, ub)} } : TRUE

\* get_terminal_size: (width, height) pairs it may leave in its arguments.
\* ok: the ioctl filled in the window size of a terminal.  Not ok: the ioctl
\* failed, its return value is not looked at, and ws_col and ws_row are read
\* from an uninitialised struct winsize: any unsigned short.
get_terminal_size(ok) ==
  IF ok THEN (1..MaxDim) \X (1..MaxDim) ELSE (0..MaxDim) \X (0..MaxDim)

\* ------------------------------------------------------------ the state

VARIABLES
  bodies,       \* std::array<Body, number_of_bodies> bodies
  bodies_old,   \* the snapshot taken by the force accumulation
  pc,           \* the place in main
  i1, i2,       \* the pair loop's indices (0-based, as in the source)
  updateCount,
  last_time, now_time,   \* clock readings, in clock units
  height, width,         \* what get_terminal_size left in its arguments
  term_ok,      \* whether the terminal size query succeeded
  frame,        \* the text create_map_of_bodies returned
  fault,        \* whether create_map_of_bodies indexed out of range
  placed,       \* the (x, y, z) indices create_map_of_bodies computed
  shown,        \* history: the collection the last render was given
  pass_out,     \* history: the collection as the last force pass left it
  visited,      \* history: the pairs the current force pass has processed
  passes,       \* history: the number of completed force passes
  next_body     \* the initialisation loop's position (1-based)

vars ==
  << bodies, bodies_old, pc, i1, i2, updateCount, last_time, now_time, height,
     width, term_ok, frame, fault, placed, shown, pass_out, visited, passes,
     next_body >>

\* ------------------------------------------------- the initialisation

\* rand01double, randn1to1double, randndouble on one value r of rand()
rand01double(r) == Div(I(r), I(RAND_MAX))
randn1to1double(r) == Sub(Mul(rand01double(r), I(2)), I(1))
randndouble(r, number_of_bodies) == Mul(randn1to1double(r), I(number_of_bodies))

\* One iteration of the init loop, r the seven values rand() returns in it.
InitialisedBody(r, number_of_bodies) ==
  Body(randndouble(r[1], number_of_bodies), randndouble(r[2], number_of_bodies),
       randndouble(r[3], number_of_bodies),
       rand01double(r[4]), rand01double(r[5]), rand01double(r[6]),
       rand01double(r[7]))

\* std::array<Body, number_of_bodies> bodies{}: every field zero
ZeroBody == Body(Zero, Zero, Zero, Zero, Zero, Zero, Zero)

\* What the variables the initialisation does not touch hold.
Untouched ==
  /\ bodies_old = << >>
  /\ i1 = 0
  /\ i2 = 0
  /\ updateCount = 0
  /\ last_time = 0
  /\ now_time = 0
  /\ height = 0
  /\ width = 0
  /\ term_ok = TRUE
  /\ frame = << >>
  /\ fault = FALSE
  /\ placed = << >>
  /\ shown = << >>
  /\ pass_out = << >>
  /\ visited = << >>
  /\ passes = 0

InitStart ==
  /\ \E count \in 1..MaxInitBodies : bodies = [i \in 1..count |-> ZeroBody]
  /\ pc = "init"
  /\ next_body = 1
  /\ Untouched

InitBody ==
  /\ pc = "init"
  /\ next_body <= Len(bodies)
  /\ \E r \in [1..7 -> 0..RAND_MAX] :
       bodies' = [bodies EXCEPT ![next_body] = InitialisedBody(r, Len(bodies))]
  /\ next_body' = next_body + 1
  /\ UNCHANGED << bodies_old, pc, i1, i2, updateCount, last_time, now_time,
                  height, width, term_ok, frame, fault, placed, shown, pass_out,
                  visited, passes >>

InitDone ==
  /\ pc = "init"
  /\ next_body > Len(bodies)
  /\ pc' = "initialised"
  /\ UNCHANGED << bodies, bodies_old, i1, i2, updateCount, last_time, now_time,
                  height, width, term_ok, frame, fault, placed, shown, pass_out,
                  visited, passes, next_body >>

InitNext == InitBody \/ InitDone

SpecInit == InitStart /\ [][InitNext]_vars

\* ------------------------------------------------------ the update loop

\* A rational p/q as a double.
Q(p, q) == Fin(p, q)

\* Collections the initialisation can produce (positions within
\* [-number_of_bodies, number_of_bodies], velocities and masses within [0, 1]),
\* chosen so that the distances of their first ticks are rationals.
Collections ==
  { \* two bodies of mass 1, 10 apart on the x-axis, at rest
    << Body(I(-5), I(0), I(0), I(0), I(0), I(0), I(1)),
       Body(I(5), I(0), I(0), I(0), I(0), I(0), I(1)) >>,
    \* two bodies on a slanted line, drifting together
    << Body(I(0), I(0), I(0), I(1), I(0), Q(1, 2), I(1)),
       Body(I(1), I(2), I(2), I(1), I(0), Q(1, 2), Q(1, 2)) >>,
    \* three bodies on the x-axis, moving along it
    << Body(I(-2), I(0), I(0), I(1), I(0), I(0), I(1)),
       Body(I(0), I(0), I(0), I(0), I(0), I(0), Q(1, 2)),
       Body(I(3), I(0), I(0), Q(1, 2), I(0), I(0), Q(1, 4)) >>,
    \* a triangle with sides 13, 5 and 12, drifting
    << Body(I(0), I(0), I(0), Q(1, 2), I(1), I(0), I(1)),
       Body(I(3), I(4), I(12), Q(1, 2), I(1), I(0), Q(1, 2)),
       Body(I(3), I(4), I(0), Q(1, 2), I(1), I(0), Q(1, 4)) >>,
    \* a body of mass 0 (rand() returned 0)
    << Body(I(-1), I(0), I(0), I(0), I(0), I(0), I(0)),
       Body(I(2), I(0), I(0), I(0), I(0), I(0), I(1)) >>,
    \* two bodies that the first position advance puts on the same point
    << Body(I(0), I(1), I(0), I(1), I(0), I(0), I(1)),
       Body(I(1), I(0), I(0), I(0), I(1), I(0), I(1)) >>,
    \* four bodies on the x-axis
    << Body(I(-3), I(0), I(0), I(0), I(0), I(0), I(1)),
       Body(I(-1), I(0), I(0), I(0), I(0), I(0), I(1)),
       Body(I(1), I(0), I(0), I(0), I(0), I(0), Q(1, 2)),
       Body(I(3), I(0), I(0), I(0), I(0), I(0), I(1)) >> }

Init ==
  /\ bodies \in {c \in Collections : Len(c) <= MaxBodies}
  /\ bodies_old = << >>
  /\ pc = "poll"
  /\ i1 = 0
  /\ i2 = 0
  /\ updateCount = 0
  /\ last_time = 0
  /\ now_time = 0
  /\ height = 0
  /\ width = 0
  /\ term_ok = TRUE
  /\ frame = << >>
  /\ fault = FALSE
  /\ placed = << >>
  /\ shown = << >>
  /\ pass_out = bodies
  /\ visited = << >>
  /\ passes = 0
  /\ next_body = Len(bodies) + 1

\* seconds_to_update without the cast: the integer quotient 1 / updates_per_second
IntegerSecondsToUpdate == I(1 \div updates_per_second)
\* seconds_to_update = 1 / (double)updates_per_second
seconds_to_update == Div(I(1), I(updates_per_second))

\* time_delta.count(): the seconds between two readings
time_delta(now, last) == Fin(now - last, ClockHz)

\* if (time_delta.count() < seconds_to_update) continue;
TooEarly(now, last) == Lt(time_delta(now, last), seconds_to_update)

\* The ticks the model follows: up to MaxTicks, and while the numbers of the
\* tick (its render fractions, its distances, its velocities and positions)
\* are ones the model holds.
Explored ==
  /\ updateCount < MaxTicks
  /\ Held(Recentre(ForcePass(AdvanceAll(bodies))))
  /\ LET bd == ComputedBounds(bodies)
     IN  \A i \in 1..Len(bodies) :
           /\ ~IsOut(InverseLerp(bodies[i].x, bd.lowest_x, bd.highest_x))
           /\ ~IsOut(InverseLerp(bodies[i].y, bd.lowest_y, bd.highest_y))
           /\ ~IsOut(InverseLerp(bodies[i].z, bd.lowest_z, bd.highest_z))

\* One iteration of while (true) up to the continue or to clear_console().
Poll ==
  /\ pc = "poll"
  /\ \E t \in 0..MaxClock :
       /\ now_time' = t
       /\ \/ /\ TooEarly(t, last_time)
             /\ UNCHANGED << last_time, pc >>
          \/ /\ ~TooEarly(t, last_time)
             /\ Explored
             /\ last_time' = t
             /\ pc' = "render"
  /\ UNCHANGED << bodies, bodies_old, i1, i2, updateCount, height, width,
                  term_ok, frame, fault, placed, shown, pass_out, visited,
                  passes, next_body >>

\* get_terminal_size(width, height); std::cout << create_map_of_bodies(...)
Render ==
  /\ pc = "render"
  /\ \E ok \in BOOLEAN : \E wh \in get_terminal_size(ok) :
       \E ub \in UBChoice :
         \E map \in {create_map_of_bodies(wh[2], wh[1], bodies, ub)} :
           /\ term_ok' = ok
           /\ width' = wh[1]
           /\ height' = wh[2]
           /\ frame' = map.text
           /\ fault' = map.fault
           /\ placed' = map.at
  /\ shown' = bodies
  /\ pc' = "advance"
  /\ UNCHANGED << bodies, bodies_old, i1, i2, updateCount, last_time, now_time,
                  pass_out, visited, passes, next_body >>

\* The copy bodies_old = bodies taken before the position advance.
AdvanceAfterCopy ==
  /\ pc = "advance"
  /\ bodies' = AdvanceAll(bodies)
  /\ bodies_old' = bodies
  /\ visited' = << >>
  /\ i1' = 0
  /\ i2' = 1
  /\ pc' = IF 0 < Len(bodies) - 1 THEN "forces" ELSE "recenter"
  /\ UNCHANGED << updateCount, last_time, now_time, height, width, term_ok,
                  frame, fault, placed, shown, pass_out, passes, next_body >>

\* The position advance, then the copy bodies_old = bodies and the entry of
\* the pair loop (i1 = 0, i2 = 1 when the collection has a pair).
Advance ==
  /\ pc = "advance"
  /\ bodies' = AdvanceAll(bodies)
  /\ bodies_old' = bodies'
  /\ visited' = << >>
  /\ i1' = 0
  /\ i2' = 1
  /\ pc' = IF 0 < Len(bodies) - 1 THEN "forces" ELSE "recenter"
  /\ UNCHANGED << updateCount, last_time, now_time, height, width, term_ok,
                  frame, fault, placed, shown, pass_out, passes, next_body >>

\* One iteration of the inner loop, and the loop headers that follow it.
PairStep ==
  /\ pc = "forces"
  /\ bodies' = PairUpdate(bodies, bodies_old, i1, i2)
  /\ visited' = Append(visited, << i1, i2 >>)
  /\ IF i2 + 1 < Len(bodies)
       THEN /\ i2' = i2 + 1
            /\ UNCHANGED << i1, pc, pass_out, passes >>
       ELSE IF i1 + 1 < Len(bodies) - 1
              THEN /\ i1' = i1 + 1
                   /\ i2' = i1 + 2
                   /\ UNCHANGED << pc, pass_out, passes >>
              ELSE /\ pc' = "recenter"
                   /\ pass_out' = bodies'
                   /\ passes' = passes + 1
                   /\ UNCHANGED << i1, i2 >>
  /\ UNCHANGED << bodies_old, updateCount, last_time, now_time, height, width,
                  term_ok, frame, fault, placed, shown, next_body >>

\* Centre all bodies around (0, 0, 0).
Recenter ==
  /\ pc = "recenter"
  /\ bodies' = Recentre(bodies)
  /\ pc' = "count"
  /\ UNCHANGED << bodies_old, i1, i2, updateCount, last_time, now_time, height,
                  width, term_ok, frame, fault, placed, shown, pass_out, visited,
                  passes, next_body >>

\* updateCount++
Count ==
  /\ pc = "count"
  /\ updateCount' = updateCount + 1
  /\ pc' = "poll"
  /\ UNCHANGED << bodies, bodies_old, i1, i2, last_time, now_time, height,
                  width, term_ok, frame, fault, placed, shown, pass_out, visited,
                  passes, next_body >>

Next == Poll \/ Render \/ Advance \/ PairStep \/ Recenter \/ Count

Spec == Init /\ [][Next]_vars

\* ------------------------------------------- the renderer on its own

\* The points the collections given to create_map_of_bodies are made of.
RenderPoints ==
  { Body(I(-2), I(-1), I(-3), Zero, Zero, Zero, I(1)),
    Body(I(-1), I(-2), I(0), Zero, Zero, Zero, I(1)),
    Body(I(0), I(0), I(0), Zero, Zero, Zero, I(1)),
    Body(I(1), I(2), I(4), Zero, Zero, Zero, I(1)),
    Body(I(1), I(2), I(0), Zero, Zero, Zero, I(1)),
    Body(DBL_MAX, I(0), I(1), Zero, Zero, Zero, I(1)),
    Body(DblMax(-1), I(1), I(0), Zero, Zero, Zero, I(1)) }

RenderInputs ==
  UNION { [1..count -> RenderPoints] : count \in 1..MaxRenderBodies }

RenderStart ==
  /\ bodies \in RenderInputs
  /\ height \in 0..MaxDim
  /\ width \in 0..MaxDim
  /\ pc = "call"
  /\ bodies_old = << >>
  /\ i1 = 0
  /\ i2 = 0
  /\ updateCount = 0
  /\ last_time = 0
  /\ now_time = 0
  /\ term_ok = TRUE
  /\ frame = << >>
  /\ fault = FALSE
  /\ placed = << >>
  /\ shown = << >>
  /\ pass_out = << >>
  /\ visited = << >>
  /\ passes = 0
  /\ next_body = Len(bodies) + 1

\* One call of create_map_of_bodies(height, width, bodies).
RenderCall ==
  /\ pc = "call"
  /\ \E ub \in UBChoice :
       \E map \in {create_map_of_bodies(height, width, bodies, ub)} :
         /\ frame' = map.text
         /\ fault' = map.fault
         /\ placed' = map.at
  /\ shown' = bodies
  /\ pc' = "returned"
  /\ UNCHANGED << bodies, bodies_old, i1, i2, updateCount, last_time, now_time,
                  height, width, term_ok, pass_out, visited, passes, next_body >>

RenderNext == RenderCall

SpecRender == RenderStart /\ [][RenderNext]_vars

\* ------------------------------------------------------------ the claims

Count3 == {"x", "y", "z"}
Pos(b, axis) == IF axis = "x" THEN b.x ELSE IF axis = "y" THEN b.y ELSE b.z
Vel(b, axis) == IF axis = "x" THEN b.vx ELSE IF axis = "y" THEN b.vy ELSE b.vz

\* C1: in every tick the render is given the positions as they are before the
\* tick's position advance, and the force accumulation reads a snapshot whose
\* positions are those the render was given advanced by the velocities the
\* previous force pass left (the initial velocities in the first tick) and
\* whose velocities are still those velocities: taken after the advance and
\* before any velocity update of the tick.  The pass leaves positions alone.
C1_TickOrder ==
  pc = "forces" =>
    /\ Len(shown) = Len(bodies_old)
    /\ \A i \in 1..Len(bodies_old) : \A axis \in Count3 :
         /\ Pos(bodies_old[i], axis) = Add(Pos(shown[i], axis), Vel(pass_out[i], axis))
         /\ Vel(bodies_old[i], axis) = Vel(pass_out[i], axis)
         /\ Pos(bodies[i], axis) = Pos(bodies_old[i], axis)

\* A second tick is in its force pass, the advance moved a body, and the
\* velocity that moved it is not the initial one.
C1_Witness ==
  /\ pc = "forces"
  /\ updateCount = 1
  /\ \E i \in 1..Len(bodies) :
       /\ IsFin(bodies_old[i].x)
       /\ bodies_old[i].x # shown[i].x
       /\ IsFin(pass_out[i].vx)
       /\ bodies_old[i].vx = pass_out[i].vx

\* The total momentum of a collection along an axis.
Momentum(bs, axis) ==
  SumTo([i \in 1..Len(bs) |-> Mul(bs[i].mass, Vel(bs[i], axis))], Len(bs))

PositiveMasses(bs) == \A i \in 1..Len(bs) : Gt(bs[i].mass, Zero)
DistinctPositions(bs) ==
  \A i \in 1..Len(bs) : \A j \in 1..Len(bs) :
    i # j => \E axis \in Count3 : Pos(bs[i], axis) # Pos(bs[j], axis)
FinitePositions(bs) ==
  \A i \in 1..Len(bs) : \A axis \in Count3 : IsFin(Pos(bs[i], axis))
FiniteVelocities(bs) ==
  \A i \in 1..Len(bs) : \A axis \in Count3 : IsFin(Vel(bs[i], axis))

\* C2: when the masses are positive and the snapshot positions pairwise
\* distinct, the total momentum along each axis is the same after the force
\* pass as in the snapshot it started from (and after every pair of the pass),
\* wherever the two totals are numbers the model holds.
C2_MomentumConserved ==
  (/\ pc \in {"forces", "recenter"}
   /\ PositiveMasses(bodies_old)
   /\ FinitePositions(bodies_old)
   /\ FiniteVelocities(bodies_old)
   /\ DistinctPositions(bodies_old))
  => \A axis \in Count3 :
       (~IsOut(Momentum(bodies_old, axis)) /\ ~IsOut(Momentum(bodies, axis))) =>
         /\ IsFin(Momentum(bodies, axis))
         /\ Momentum(bodies, axis) = Momentum(bodies_old, axis)

\* A pass over three bodies of different masses has ended and changed every
\* velocity.
C2_Witness ==
  /\ pc = "recenter"
  /\ Len(bodies) = 3
  /\ PositiveMasses(bodies_old)
  /\ DistinctPositions(bodies_old)
  /\ bodies[1].mass # bodies[2].mass
  /\ \A i \in 1..3 : IsFin(bodies[i].vx) /\ bodies[i].vx # bodies_old[i].vx
  /\ ~IsZero(Momentum(bodies, "x"))

\* What the pass adds to the velocity of body i along an axis for its pair
\* with body j: unit(i -> j) * F / mass_i, F = G * mass_i * mass_j / d, all
\* from the snapshot old.
PairTerm(old, i, j, axis) ==
  LET dx == Sub(old[j].x, old[i].x)
      dy == Sub(old[j].y, old[i].y)
      dz == Sub(old[j].z, old[i].z)
      d == Sqrt(Add(Add(Mul(dx, dx), Mul(dy, dy)), Mul(dz, dz)))
      F == Div(Mul(I(gravitational_constant), Mul(old[i].mass, old[j].mass)), d)
      unit == Div(Sub(Pos(old[j], axis), Pos(old[i], axis)), d)
  IN  Div(Mul(unit, F), old[i].mass)

\* The sum of the pair terms of body i with the bodies 1..k other than i.
RECURSIVE PairSum(_, _, _, _)
PairSum(old, i, k, axis) ==
  IF k = 0 THEN Zero
  ELSE IF k = i THEN PairSum(old, i, k - 1, axis)
  ELSE Add(PairSum(old, i, k - 1, axis), PairTerm(old, i, k, axis))

\* C3: a force pass over N bodies processes exactly the pairs (a, b) with
\* 0 <= a < b < N, each once, in the order of the nested loops, and leaves
\* every velocity at its snapshot value plus the pair terms of the body; two
\* bodies of mass 1, 10 apart on the x-axis, get +1/10 and -1/10 along x (each
\* toward the other) and nothing along y and z.
C3_PairsAndForce ==
  pc = "recenter" =>
    LET count == Len(bodies) IN
    /\ Len(visited) * 2 = count * (count - 1)
    /\ \A k \in 1..Len(visited) :
         0 <= visited[k][1] /\ visited[k][1] < visited[k][2] /\ visited[k][2] < count
    /\ \A a \in 0..(count - 1) : \A b \in (a + 1)..(count - 1) :
         Cardinality({k \in 1..Len(visited) : visited[k] = << a, b >>}) = 1
    /\ \A k \in 1..(Len(visited) - 1) :
         \/ visited[k][1] < visited[k + 1][1]
         \/ visited[k][1] = visited[k + 1][1] /\ visited[k][2] < visited[k + 1][2]
    /\ \A i \in 1..count : \A axis \in Count3 :
         Vel(bodies[i], axis)
           = Add(Vel(bodies_old[i], axis), PairSum(bodies_old, i, count, axis))
    /\ (/\ count = 2
        /\ bodies_old[1].mass = I(1)
        /\ bodies_old[2].mass = I(1)
        /\ Sub(bodies_old[2].x, bodies_old[1].x) = I(10)
        /\ bodies_old[2].y = bodies_old[1].y
        /\ bodies_old[2].z = bodies_old[1].z)
       => /\ Sub(bodies[1].vx, bodies_old[1].vx) = Fin(1, 10)
          /\ Sub(bodies[2].vx, bodies_old[2].vx) = Fin(-1, 10)
          /\ bodies[1].vy = bodies_old[1].vy
          /\ bodies[1].vz = bodies_old[1].vz
          /\ bodies[2].vy = bodies_old[2].vy
          /\ bodies[2].vz = bodies_old[2].vz

\* A pass over three bodies off a common line has ended: three pairs, every
\* velocity changed along x and still a number.
C3_Witness ==
  /\ pc = "recenter"
  /\ Len(bodies) = 3
  /\ visited = << << 0, 1 >>, << 0, 2 >>, << 1, 2 >> >>
  /\ bodies_old[2].z # bodies_old[3].z
  /\ \A i \in 1..3 : IsFin(bodies[i].vx) /\ bodies[i].vx # bodies_old[i].vx

\* The two-body case of C3 has been computed.
C3_TwoBodyReached ==
  /\ pc = "recenter"
  /\ Len(bodies) = 2
  /\ bodies_old[1].mass = I(1)
  /\ bodies_old[2].mass = I(1)
  /\ Sub(bodies_old[2].x, bodies_old[1].x) = I(10)
  /\ Sub(bodies[1].vx, bodies_old[1].vx) = Fin(1, 10)

\* The mean of the positions of a collection along an axis.
MeanPosition(bs, axis) ==
  Div(SumTo([i \in 1..Len(bs) |-> Pos(bs[i], axis)], Len(bs)), I(Len(bs)))

\* C4: from the recentre step of a tick to the next position advance, when the
\* positions are finite, the mean position is the origin on every axis; the
\* recentre subtracted from every body the mean of the positions as the
\* position advance left them (the snapshot's), so the differences between
\* the positions of any two bodies are those of the snapshot.
C4_Recentred ==
  (/\ pc \in {"count", "poll", "render", "advance"}
   /\ passes >= 1
   /\ FinitePositions(bodies_old))
  => \A axis \in Count3 :
       /\ MeanPosition(bodies, axis) = Zero
       /\ \A i \in 1..Len(bodies) :
            /\ Pos(bodies[i], axis)
                 = Sub(Pos(bodies_old[i], axis), MeanPosition(bodies_old, axis))
            /\ \A j \in 1..Len(bodies) :
                 Sub(Pos(bodies[i], axis), Pos(bodies[j], axis))
                   = Sub(Pos(bodies_old[i], axis), Pos(bodies_old[j], axis))

\* A recentre has moved three bodies whose mean position was off the origin.
C4_Witness ==
  /\ pc = "count"
  /\ Len(bodies) = 3
  /\ FinitePositions(bodies_old)
  /\ \A axis \in Count3 : ~IsZero(MeanPosition(bodies_old, axis))
  /\ bodies[1].x # bodies_old[1].x

\* The greatest and the least of the values of a collection along an axis.
IsMaximum(m, bs, axis) ==
  /\ \E i \in 1..Len(bs) : Pos(bs[i], axis) = m
  /\ \A i \in 1..Len(bs) : ~Gt(Pos(bs[i], axis), m)
IsMinimum(m, bs, axis) ==
  /\ \E i \in 1..Len(bs) : Pos(bs[i], axis) = m
  /\ \A i \in 1..Len(bs) : ~Lt(Pos(bs[i], axis), m)

\* C5: the bounds create_map_of_bodies computes are the bounding box of the
\* collection it was given: on each axis the lowest value is the minimum and
\* the highest value the maximum of the coordinate over the bodies.
C5_BoundsAreBoundingBox ==
  pc = "returned" =>
    LET bd == ComputedBounds(bodies)
    IN  /\ IsMinimum(bd.lowest_x, bodies, "x")
        /\ IsMinimum(bd.lowest_y, bodies, "y")
        /\ IsMinimum(bd.lowest_z, bodies, "z")
        /\ IsMaximum(bd.highest_x, bodies, "x")
        /\ IsMaximum(bd.highest_y, bodies, "y")
        /\ IsMaximum(bd.highest_z, bodies, "z")

\* C6: after the initialisation every mass is in (0, 1], every position
\* component in [-n, n] and every velocity component in [0, 1], n the number
\* of bodies.
C6_InitialRanges ==
  pc = "initialised" =>
    \A i \in 1..Len(bodies) :
      /\ Gt(bodies[i].mass, Zero)
      /\ ~Gt(bodies[i].mass, I(1))
      /\ \A axis \in Count3 :
           /\ ~Lt(Pos(bodies[i], axis), I(-Len(bodies)))
           /\ ~Gt(Pos(bodies[i], axis), I(Len(bodies)))
           /\ ~Lt(Vel(bodies[i], axis), Zero)
           /\ ~Gt(Vel(bodies[i], axis), I(1))

\* The character of the returned text at row r, column c (0-based).
CharAt(text, w, r, c) == text[r * (w + 1) + c + 1]

\* The bodies whose computed cell is row r, column c.
BodiesAt(at, r, c) == {i \in 1..Len(at) : at[i].y = r /\ at[i].x = c}

Greatest(S) == CHOOSE i \in S : \A j \in S : j <= i

\* C7: in the grid create_map_of_bodies returns (every write having been
\* within the grid), a cell that two or more bodies map to holds the depth
\* character of the one with the greatest index, a cell one body maps to
\* holds that body's depth character, and every other cell is a space.
C7_LastWriteWins ==
  (pc = "returned" /\ ~fault) =>
    \A r \in 0..(height - 1) : \A c \in 0..(width - 1) :
      LET here == BodiesAt(placed, r, c)
      IN  CharAt(frame, width, r, c)
            = IF here = {} THEN " "
              ELSE z_characters[placed[Greatest(here)].z + 1]

\* Two bodies with different depth characters were written to one cell of a
\* grid that also has an empty cell.
C7_Witness ==
  /\ pc = "returned"
  /\ ~fault
  /\ \E r \in 0..(height - 1) : \E c \in 0..(width - 1) :
       \E i \in BodiesAt(placed, r, c) : \E j \in BodiesAt(placed, r, c) :
         /\ i < j
         /\ placed[i].z # placed[j].z
         /\ j = Greatest(BodiesAt(placed, r, c))
         /\ CharAt(frame, width, r, c) = z_characters[placed[j].z + 1]
  /\ \E r \in 0..(height - 1) : \E c \in 0..(width - 1) :
       BodiesAt(placed, r, c) = {} /\ CharAt(frame, width, r, c) = " "

\* C8: a tick starts only on a clock reading at least 1/updates_per_second
\* seconds after the reading recorded at the start of the previous tick (the
\* reading taken before the loop, for the first), and records that reading;
\* an iteration that does not start a tick leaves the collection, the counter
\* and the recorded reading as they are; the counter only ever grows by one,
\* and when it does exactly one force pass has completed per counted tick.
C8_Scheduler ==
  [][ /\ (pc = "poll" /\ pc' # "poll") =>
           /\ (now_time' - last_time) * updates_per_second >= ClockHz
           /\ last_time' = now_time'
           /\ UNCHANGED << bodies, updateCount, passes >>
      /\ (pc = "poll" /\ pc' = "poll") =>
           UNCHANGED << bodies, bodies_old, updateCount, last_time, passes >>
      /\ updateCount' # updateCount =>
           /\ updateCount' = updateCount + 1
           /\ passes' = updateCount'
           /\ passes = passes'
      /\ pc # "poll" => UNCHANGED last_time ]_vars

\* Two ticks have completed, the second started on a later reading than the
\* first.
C8_Witness ==
  /\ pc = "poll"
  /\ updateCount = 2
  /\ passes = 2
  /\ last_time = MaxClock

\* C9: when the terminal size query fails, the width and the height given to
\* the renderer are a default grid size, both non-zero.
C9_DefaultOnFailure ==
  (pc = "advance" /\ ~term_ok) => (width >= 1 /\ height >= 1)

\* C10: for a collection of finite coordinates whose computed bounds have a
\* non-zero extent on each axis, and a height and a width of at least 1, every
\* write of create_map_of_bodies is within the grid and the palette, and the
\* text returned is height lines of width characters, each followed by a
\* newline.
C10_WritesInGrid ==
  LET bd == ComputedBounds(bodies)
  IN  (/\ pc = "returned"
       /\ height >= 1
       /\ width >= 1
       /\ \A i \in 1..Len(bodies) : \A axis \in Count3 : IsFinite(Pos(bodies[i], axis))
       /\ ~IsZero(Sub(bd.highest_x, bd.lowest_x))
       /\ ~IsZero(Sub(bd.highest_y, bd.lowest_y))
       /\ ~IsZero(Sub(bd.highest_z, bd.lowest_z)))
      => /\ ~fault
         /\ \A i \in 1..Len(placed) :
              /\ 0 <= placed[i].y /\ placed[i].y <= height - 1
              /\ 0 <= placed[i].x /\ placed[i].x <= width - 1
              /\ 0 <= placed[i].z /\ placed[i].z <= 15
         /\ Len(frame) = height * (width + 1)
         /\ \A r \in 0..(height - 1) :
              /\ frame[r * (width + 1) + width + 1] = "\n"
              /\ \A c \in 0..(width - 1) : CharAt(frame, width, r, c) # "\n"
=============================================================================
